---- MODULE Spec2Model ----
(***************************************************************************)
(* Model of the face authenticator: app.py (the request handlers),         *)
(* database.py (the Milvus collection and the sequential "fr" counter)     *)
(* and utils.py (the embedding adapter).                                   *)
(*                                                                         *)
(* Numbers.  Embedding components are fixed-point integers on a grid of    *)
(* Grid units per step, so that the mean of 2, 3 or 4 grid vectors is      *)
(* exact.  Milvus's "L2" metric is the squared Euclidean distance, so      *)
(* distances are in squared units; DISTANCE_THRESHOLD (1.1 in app.py) is   *)
(* expressed in the same squared units.                                    *)
(***************************************************************************)
EXTENDS Integers, Sequences, FiniteSets, TLC

\* ------------------------------------------------------------------ bounds
\* add_user calls (uuids drawn, labels allocated) in one behaviour
MaxEnroll == 2
\* parts named "image" in one upload
MaxFiles == 5
\* database.py: EMBEDDING_DIMENSION = 512, reduced to the dimension the grid needs
EMBEDDING_DIMENSION == 2

\* ------------------------------------------------------- program constants
\* app.py: if not 2 <= len(image_files) <= 4
MinImages == 2
MaxImages == 4
\* app.py: if len(embeddings) < 2
MinEmbeddings == 2
\* app.py: DISTANCE_THRESHOLD = 1.1, in squared grid units
DISTANCE_THRESHOLD == 72
\* database.py: metadata = {"last_user_id": 0}
InitialLastUserId == 0
\* fixed-point units per grid step: divisible by every sample count 2, 3, 4
Grid == 3 * 4

Threads == {"t1", "t2"}

VARIABLES
    metadata,        \* database.metadata['last_user_id'] (in memory)
    file,            \* instance/metadata.json: NoFile or the saved counter
    store,           \* the Milvus collection: a set of entities
    lastPk,          \* the collection's auto_id primary key counter
    uuidsGenerated,  \* how many uuid4() values have been drawn
    request,         \* the request handled by the last step
    response,        \* the response it got
    issued,          \* history: labels returned by get_next_human_id, in order
    removed,         \* history: entities removed by delete_user
    enrolled,        \* history: the 201 responses of api_register
    pc,              \* per thread: where it is inside add_user
    local            \* per thread: the locals of api_register / add_user

vars == <<metadata, file, store, lastPk, uuidsGenerated, request, response,
          issued, removed, enrolled, pc, local>>

\* ------------------------------------------------------------------ values
\* Python's None for an embedding
None == <<>>
\* no METADATA_FILE on disk
NoFile == -1

\* The upload parts a client can send under "image".
Parts == {"faceA", "faceB", "noface", "empty"}

\* image_file.filename: '' for an empty file input
Filename(part) == IF part = "empty" THEN "" ELSE part

\* request.form: the 'name' key may be absent, or empty
Forms == {[has_name |-> FALSE, name |-> ""],
          [has_name |-> TRUE, name |-> ""],
          [has_name |-> TRUE, name |-> "alice"]}

\* utils.get_face_embedding: the embedding of the first face, None without a face
get_face_embedding(image) ==
    CASE image = "faceA" -> [i \in 1..EMBEDDING_DIMENSION |-> IF i = 1 THEN 0 ELSE Grid]
      [] image = "faceB" -> [i \in 1..EMBEDDING_DIMENSION |-> IF i = 1 THEN Grid ELSE 0]
      [] OTHER -> None

\* str(uuid.uuid4()): the n-th value drawn; distinct draws never collide
Uuid4(n) == <<"uuid", n>>
\* an id no enrollment ever produced
UnknownUuid == Uuid4(0)

\* f"fr{n}"
HumanId(n) == <<"fr", n>>
LabelNumber(label) == label[2]

RECURSIVE SumAt(_, _)
SumAt(embs, i) ==
    IF embs = <<>> THEN 0 ELSE Head(embs)[i] + SumAt(Tail(embs), i)

\* a faulty mean: the sum divided by the largest allowed sample count
MeanByMaxImages(embs) ==
    [i \in 1..EMBEDDING_DIMENSION |-> SumAt(embs, i) \div MaxImages]

\* np.mean(embeddings, axis=0)
Mean(embs) ==
    [i \in 1..EMBEDDING_DIMENSION |-> SumAt(embs, i) \div Len(embs)]

\* api_register's loop over image_files: parts with an empty filename are
\* skipped, the first image without a face ends the request
RECURSIVE EmbedLoop(_, _)
EmbedLoop(image_files, embeddings) ==
    IF image_files = <<>>
    THEN [failed |-> FALSE, filename |-> "", embeddings |-> embeddings]
    ELSE LET image_file == Head(image_files)
             embedding == get_face_embedding(image_file)
         IN  IF Filename(image_file) = ""
             THEN EmbedLoop(Tail(image_files), embeddings)
             ELSE IF embedding = None
             THEN [failed |-> TRUE, filename |-> Filename(image_file),
                   embeddings |-> embeddings]
             ELSE EmbedLoop(Tail(image_files), Append(embeddings, embedding))

\* api_register up to the call of database.add_user: the 400 it returns, or
\* the name and the averaged embedding it passes on
Prepared(error, filename, name, embeddings) ==
    [error |-> error, filename |-> filename, name |-> name,
     embeddings |-> embeddings,
     avg_embedding |-> IF error = "" THEN Mean(embeddings) ELSE None]

Prepare(form, image_files) ==
    IF ~form.has_name \/ form.name = ""
    THEN Prepared("Missing name", "", "", <<>>)
    ELSE IF ~(MinImages <= Len(image_files) /\ Len(image_files) <= MaxImages)
    THEN Prepared("Please upload between 2 and 4 images", "", "", <<>>)
    ELSE LET loop == EmbedLoop(image_files, <<>>)
         IN  IF loop.failed
             THEN Prepared("No face detected", loop.filename, "", <<>>)
             ELSE IF Len(loop.embeddings) < MinEmbeddings
             THEN Prepared("Fewer than 2 valid images", "", "", <<>>)
             ELSE Prepared("", "", form.name, loop.embeddings)

\* Milvus metric_type "L2": the squared Euclidean distance
RECURSIVE SquaredDiffs(_, _, _)
SquaredDiffs(a, b, i) ==
    IF i = 0 THEN 0
    ELSE (a[i] - b[i]) * (a[i] - b[i]) + SquaredDiffs(a, b, i - 1)

L2(a, b) == SquaredDiffs(a, b, EMBEDDING_DIMENSION)

\* a faulty search: any entity may come back as the top hit
AnyHits(entities, embedding) == entities

\* collection.search(limit=1): the hits it may return, the nearest entities;
\* which of several equally near ones comes first is the store's choice
TopHits(entities, embedding) ==
    {e \in entities :
        \A o \in entities : L2(e.embedding, embedding) <= L2(o.embedding, embedding)}

\* ---------------------------------------------------------------- messages
Request(op) ==
    [op |-> op, embedding |-> None, user_uuid |-> None, parts |-> 0,
     embeddings |-> <<>>, matched |-> 0]

Response(op, status) ==
    [op |-> op, status |-> status, error |-> "", filename |-> "",
     authenticated |-> FALSE, message |-> "", uuid |-> None, name |-> "",
     human_id |-> None, distance |-> -1, users |-> {}]

\* find_similar_user's answer for one search outcome
NoMatch == [user_uuid |-> None, name |-> "", human_id |-> None, distance |-> -1]

\* a faulty decision: a hit exactly at the threshold is accepted
MatchAtThreshold(top_hit, embedding, threshold) ==
    LET distance == L2(top_hit.embedding, embedding)
    IN  IF distance <= threshold
        THEN [user_uuid |-> top_hit.user_uuid, name |-> top_hit.name,
              human_id |-> top_hit.human_id, distance |-> distance]
        ELSE NoMatch

Match(top_hit, embedding, threshold) ==
    LET distance == L2(top_hit.embedding, embedding)
    IN  IF distance < threshold
        THEN [user_uuid |-> top_hit.user_uuid, name |-> top_hit.name,
              human_id |-> top_hit.human_id, distance |-> distance]
        ELSE NoMatch

\* one thread's locals: api_register's p, add_user's user_uuid and human_id,
\* and the value read by "metadata['last_user_id'] += 1" before it is stored
Locals(p, user_uuid, last_user_id, human_id) ==
    [p |-> p, user_uuid |-> user_uuid, last_user_id |-> last_user_id,
     human_id |-> human_id]

NoLocals == Locals(Prepared("idle", "", "", <<>>), None, 0, None)

\* ------------------------------------------------------------------- state
Init ==
    /\ metadata = InitialLastUserId
    /\ file = NoFile
    /\ store = {}
    /\ lastPk = 0
    /\ uuidsGenerated = 0
    /\ request = Request("start")
    /\ response = Response("start", 0)
    /\ issued = <<>>
    /\ removed = {}
    /\ enrolled = {}
    /\ pc = [t \in Threads |-> "idle"]
    /\ local = [t \in Threads |-> NoLocals]

\* ------------------------------------------------- the sequential counter
\* a faulty start: the saved counter is not read back
LoadMetadataIgnoringFile(f) == InitialLastUserId

\* init_milvus: metadata = json.load(f) if the file exists, else last_user_id 0
LoadMetadata(f) == IF f = NoFile THEN InitialLastUserId ELSE f

\* get_next_human_id: metadata['last_user_id'] += 1
Increment(last_user_id) == last_user_id + 1

\* a faulty save: the value from before the increment is written
SaveMetadataStale(last_user_id) == last_user_id - 1

\* save_metadata: json.dump(metadata, f)
SaveMetadata(last_user_id) == last_user_id

\* add_user: the row handed to collection.insert
Entity(pk, avg_embedding, user_uuid, name, human_id) ==
    [pk |-> pk, embedding |-> avg_embedding, user_uuid |-> user_uuid,
     name |-> name, human_id |-> human_id]

\* ------------------------------------------- handlers, one request at a time
\* a faulty rejection: the label was allocated before the checks
RegisterRejectedAfterAllocation(p) ==
    /\ request' = Request("register")
    /\ response' = [Response("register", 400) EXCEPT
                        !.error = p.error, !.filename = p.filename]
    /\ metadata' = Increment(metadata)
    /\ file' = Increment(metadata)
    /\ UNCHANGED <<store, lastPk, uuidsGenerated, issued, removed, enrolled,
                   pc, local>>

\* api_register returning 400: nothing but the response is produced
RegisterRejected(p) ==
    /\ request' = Request("register")
    /\ response' = [Response("register", 400) EXCEPT
                        !.error = p.error, !.filename = p.filename]
    /\ UNCHANGED <<metadata, file, store, lastPk, uuidsGenerated, issued,
                   removed, enrolled, pc, local>>

\* database.add_user, called by api_register, run without interleaving.
\* fault: "none", or the store call that raises ("insert", "flush").
AddUser(p, parts, fault) ==
    LET user_uuid == Uuid4(uuidsGenerated + 1)
        last_user_id == Increment(metadata)
        human_id == HumanId(last_user_id)
        entity == Entity(lastPk + 1, p.avg_embedding, user_uuid, p.name, human_id)
    IN  /\ uuidsGenerated < MaxEnroll
        /\ uuidsGenerated' = uuidsGenerated + 1
        /\ metadata' = last_user_id
        /\ file' = SaveMetadata(last_user_id)
        /\ issued' = Append(issued, human_id)
        /\ IF fault = "insert"
           THEN UNCHANGED <<store, lastPk>>
           ELSE store' = store \cup {entity} /\ lastPk' = lastPk + 1
        /\ request' = [Request("register") EXCEPT
                           !.parts = parts, !.embeddings = p.embeddings]
        /\ IF fault = "none"
           THEN /\ response' = [Response("register", 201) EXCEPT
                                    !.uuid = user_uuid, !.name = p.name,
                                    !.human_id = human_id]
                /\ enrolled' = enrolled \cup
                        {[uuid |-> user_uuid, name |-> p.name, human_id |-> human_id]}
           ELSE /\ response' = [Response("register", 500) EXCEPT !.error = fault]
                /\ UNCHANGED enrolled
        /\ UNCHANGED <<removed, pc, local>>

\* api_register for one prepared call
ApiRegister(call, fault) ==
    IF call.p.error # ""
    THEN fault = "none" /\ RegisterRejected(call.p)
    ELSE AddUser(call.p, call.parts, fault)

\* database.find_similar_user: every answer the search may lead to
find_similar_user(entities, embedding, threshold) ==
    IF entities = {}
    THEN {NoMatch}
    ELSE {Match(top_hit, embedding, threshold) : top_hit \in TopHits(entities, embedding)}

\* api_authenticate's answer to find_similar_user's result ("if name:")
AuthResponse(m) ==
    IF m.name # ""
    THEN [Response("authenticate", 200) EXCEPT
              !.authenticated = TRUE, !.message = "Authentication successful",
              !.uuid = m.user_uuid, !.name = m.name, !.human_id = m.human_id,
              !.distance = m.distance]
    ELSE [Response("authenticate", 200) EXCEPT !.message = "User not recognized"]

\* image: a part of Parts, or "absent" when the request has no 'image' file
ApiAuthenticate(image) ==
    LET embedding == get_face_embedding(image)
    IN  /\ request' = [Request("authenticate") EXCEPT !.embedding = embedding]
        /\ IF image = "absent" \/ Filename(image) = ""
           THEN response' = [Response("authenticate", 400) EXCEPT
                                 !.error = "Missing image"]
           ELSE IF embedding = None
           THEN response' = [Response("authenticate", 200) EXCEPT
                                 !.message = "No face detected"]
           ELSE \E m \in find_similar_user(store, embedding, DISTANCE_THRESHOLD) :
                    response' = AuthResponse(m)
        /\ UNCHANGED <<metadata, file, store, lastPk, uuidsGenerated, issued,
                       removed, enrolled, pc, local>>

\* database.delete_user's last line, "return result.delete_coun": the
\* MutationResult has no such attribute, so the call raises AttributeError
\* after the delete and the flush
DeleteUserReturn(delete_count) ==
    [raised |-> TRUE, error |-> "AttributeError", value |-> 0]

\* delete_user_page: flashes by the truth of delete_user's value; an
\* exception becomes the framework's 500
DeleteUserPage(outcome) ==
    IF outcome.raised
    THEN [Response("delete", 500) EXCEPT !.error = outcome.error]
    ELSE IF outcome.value # 0
    THEN [Response("delete", 302) EXCEPT !.message = "User deleted successfully."]
    ELSE [Response("delete", 302) EXCEPT !.message = "Error: User not found."]

\* a faulty delete: the expression is evaluated but nothing is removed
DeleteUserKeepingRows(user_uuid) ==
    LET matched == {e \in store : e.user_uuid = user_uuid}
    IN  /\ store' = store
        /\ removed' = removed \cup matched
        /\ request' = [Request("delete") EXCEPT
                           !.user_uuid = user_uuid, !.matched = Cardinality(matched)]
        /\ response' = DeleteUserPage(DeleteUserReturn(Cardinality(matched)))
        /\ UNCHANGED <<metadata, file, lastPk, uuidsGenerated, issued, enrolled,
                       pc, local>>

DeleteUser(user_uuid) ==
    LET matched == {e \in store : e.user_uuid = user_uuid}
    IN  /\ store' = store \ matched
        /\ removed' = removed \cup matched
        /\ request' = [Request("delete") EXCEPT
                           !.user_uuid = user_uuid, !.matched = Cardinality(matched)]
        /\ response' = DeleteUserPage(DeleteUserReturn(Cardinality(matched)))
        /\ UNCHANGED <<metadata, file, lastPk, uuidsGenerated, issued, enrolled,
                       pc, local>>

\* a faulty scan: the first row is left out
get_all_users_after_first(entities) ==
    {[uuid |-> r.user_uuid, name |-> r.name, human_id |-> r.human_id] :
        r \in {e \in entities : e.pk > 1}}

\* database.get_all_users, shown by index()
get_all_users(entities) ==
    {[uuid |-> r.user_uuid, name |-> r.name, human_id |-> r.human_id] :
        r \in {e \in entities : e.pk >= 0}}

Index ==
    /\ request' = Request("list")
    /\ response' = [Response("list", 200) EXCEPT !.users = get_all_users(store)]
    /\ UNCHANGED <<metadata, file, store, lastPk, uuidsGenerated, issued,
                   removed, enrolled, pc, local>>

\* the process is restarted: the module globals are rebuilt and init_milvus
\* runs again; the file and the collection are what the old process left
Restart ==
    /\ metadata' = LoadMetadata(file)
    /\ request' = Request("start")
    /\ response' = Response("start", 0)
    /\ pc' = [t \in Threads |-> "idle"]
    /\ local' = [t \in Threads |-> NoLocals]
    /\ UNCHANGED <<file, store, lastPk, uuidsGenerated, issued, removed, enrolled>>

\* request.files.getlist("image"): up to MaxFiles parts
Uploads == UNION {[1..n -> Parts] : n \in 0..MaxFiles}

\* every enrollment request, as api_register sees it before it touches the
\* database: the outcome of its checks, and how many parts were uploaded
RegisterCalls ==
    {[p |-> Prepare(form, image_files), parts |-> Len(image_files)] :
        form \in Forms, image_files \in Uploads}

Register == \E call \in RegisterCalls : ApiRegister(call, "none")

\* the calls with at most MinImages parts
ShortCalls == {call \in RegisterCalls : call.parts <= MinImages}

RegisterShort == \E call \in ShortCalls : ApiRegister(call, "none")

RegisterStoreFault == \E call \in ShortCalls, fault \in {"insert", "flush"} :
                          ApiRegister(call, fault)

Authenticate == \E image \in Parts \cup {"absent"} : ApiAuthenticate(image)

Delete == \E n \in 0..uuidsGenerated : DeleteUser(Uuid4(n))

\* requests handled one at a time, the store always available
Next == Register \/ Authenticate \/ Delete \/ Index \/ Restart

Spec == Init /\ [][Next]_vars

\* the same, with the store's insert or flush allowed to raise in add_user
NextFaults ==
    RegisterShort \/ RegisterStoreFault \/ Authenticate \/ Delete \/ Index \/ Restart

SpecFaults == Init /\ [][NextFaults]_vars

\* ------------------------------ enrollments on the server's worker threads
\* api_register up to add_user's "user_uuid = str(uuid.uuid4())"
Begin(t) ==
    /\ pc[t] = "idle"
    /\ \E call \in ShortCalls :
          IF call.p.error # ""
          THEN RegisterRejected(call.p)
          ELSE /\ uuidsGenerated < MaxEnroll
               /\ uuidsGenerated' = uuidsGenerated + 1
               /\ local' = [local EXCEPT ![t] =
                               Locals(call.p, Uuid4(uuidsGenerated + 1), 0, None)]
               /\ pc' = [pc EXCEPT ![t] = "load"]
               /\ UNCHANGED <<metadata, file, store, lastPk, request, response,
                              issued, removed, enrolled>>

\* get_next_human_id, "metadata['last_user_id'] += 1": the read ...
LoadCounter(t) ==
    /\ pc[t] = "load"
    /\ local' = [local EXCEPT ![t].last_user_id = metadata]
    /\ pc' = [pc EXCEPT ![t] = "store"]
    /\ UNCHANGED <<metadata, file, store, lastPk, uuidsGenerated, request,
                   response, issued, removed, enrolled>>

\* ... and the write
StoreCounter(t) ==
    /\ pc[t] = "store"
    /\ metadata' = Increment(local[t].last_user_id)
    /\ pc' = [pc EXCEPT ![t] = "save"]
    /\ UNCHANGED <<file, store, lastPk, uuidsGenerated, request, response,
                   issued, removed, enrolled, local>>

\* get_next_human_id: save_metadata()
Save(t) ==
    /\ pc[t] = "save"
    /\ file' = SaveMetadata(metadata)
    /\ pc' = [pc EXCEPT ![t] = "label"]
    /\ UNCHANGED <<metadata, store, lastPk, uuidsGenerated, request, response,
                   issued, removed, enrolled, local>>

\* get_next_human_id: return f"fr{metadata['last_user_id']}"
Label(t) ==
    /\ pc[t] = "label"
    /\ local' = [local EXCEPT ![t].human_id = HumanId(metadata)]
    /\ issued' = Append(issued, HumanId(metadata))
    /\ pc' = [pc EXCEPT ![t] = "insert"]
    /\ UNCHANGED <<metadata, file, store, lastPk, uuidsGenerated, request,
                   response, removed, enrolled>>

\* add_user: collection.insert(data_to_insert)
Insert(t) ==
    /\ pc[t] = "insert"
    /\ store' = store \cup {Entity(lastPk + 1, local[t].p.avg_embedding,
                                   local[t].user_uuid, local[t].p.name,
                                   local[t].human_id)}
    /\ lastPk' = lastPk + 1
    /\ pc' = [pc EXCEPT ![t] = "flush"]
    /\ UNCHANGED <<metadata, file, uuidsGenerated, request, response, issued,
                   removed, enrolled, local>>

\* add_user: collection.flush() and the return; api_register: the 201
Flush(t) ==
    /\ pc[t] = "flush"
    /\ request' = Request("register")
    /\ response' = [Response("register", 201) EXCEPT
                        !.uuid = local[t].user_uuid, !.name = local[t].p.name,
                        !.human_id = local[t].human_id]
    /\ enrolled' = enrolled \cup
            {[uuid |-> local[t].user_uuid, name |-> local[t].p.name,
              human_id |-> local[t].human_id]}
    /\ pc' = [pc EXCEPT ![t] = "idle"]
    /\ local' = [local EXCEPT ![t] = NoLocals]
    /\ UNCHANGED <<metadata, file, store, lastPk, uuidsGenerated, issued, removed>>

\* concurrent enrollments: each thread runs api_register, its steps interleaved
\* with the other threads'
NextThreads ==
    \E t \in Threads :
        \/ Begin(t)
        \/ LoadCounter(t)
        \/ StoreCounter(t)
        \/ Save(t)
        \/ Label(t)
        \/ Insert(t)
        \/ Flush(t)

SpecThreads == Init /\ [][NextThreads]_vars

\* ------------------------------------------------------------------ claims
RemovedUuids == {r.user_uuid : r \in removed}

IssuedNumbers == [i \in DOMAIN issued |-> LabelNumber(issued[i])]

\* the distance from the nearest stored signature to a query
NearestDistance(embedding) ==
    CHOOSE d \in {L2(e.embedding, embedding) : e \in store} :
        \A e \in store : d <= L2(e.embedding, embedding)

NoIdentity(r) ==
    /\ r.uuid = None
    /\ r.name = ""
    /\ r.human_id = None
    /\ r.distance = -1

IsIdentityOf(r, e) ==
    /\ r.uuid = e.user_uuid
    /\ r.name = e.name
    /\ r.human_id = e.human_id

\* C1: no two enrollments ever receive the same human label, also when their
\* steps of get_next_human_id interleave.
C1_NoLabelTwice ==
    \A i, j \in DOMAIN issued : i # j => issued[i] # issued[j]

\* C2: Delete always ends with a boolean result, never with an error: true
\* when at least one record was removed, false when none matched.
C2_DeleteAnswersBoolean ==
    request.op = "delete" =>
        /\ response.status # 500
        /\ (response.message = "User deleted successfully.") <=> (request.matched >= 1)

\* C3: with enrollments handled one at a time, across deletions, restarts and
\* failed store calls, every label issued is strictly greater than all labels
\* issued before it, and a successful enrollment answers with the newest one.
C3_LabelsStrictlyIncrease ==
    /\ \A i, j \in DOMAIN issued : i < j => IssuedNumbers[i] < IssuedNumbers[j]
    /\ (request.op = "register" /\ response.status = 201) =>
            /\ issued # <<>>
            /\ response.human_id = issued[Len(issued)]
    /\ \A e \in store \cup removed : \E i \in DOMAIN issued : issued[i] = e.human_id

\* C3's case: a first record was enrolled and deleted, and the next enrollment
\* got fr2
C3_Witness ==
    /\ request.op = "register"
    /\ response.status = 201
    /\ response.human_id = HumanId(2)
    /\ removed # {}
    /\ \E e \in removed : e.human_id = HumanId(1)

\* C4: Authenticate answers authenticated=true only if the nearest stored
\* record is strictly nearer than the threshold; with that distance at or above
\* the threshold, with an empty store or without a face it answers
\* authenticated=false and returns no identity fields.
C4_OnlyBelowThreshold ==
    request.op = "authenticate" =>
        /\ response.authenticated =>
                /\ request.embedding # None
                /\ store # {}
                /\ NearestDistance(request.embedding) < DISTANCE_THRESHOLD
        /\ (\/ request.embedding = None
            \/ store = {}
            \/ NearestDistance(request.embedding) >= DISTANCE_THRESHOLD) =>
                ~response.authenticated /\ NoIdentity(response)

\* C4's case: the nearest record is exactly at the threshold
C4_Witness ==
    /\ request.op = "authenticate"
    /\ request.embedding # None
    /\ store # {}
    /\ NearestDistance(request.embedding) = DISTANCE_THRESHOLD
    /\ ~response.authenticated
    /\ response.status = 200

\* C5 as stated: authenticating with a stored record's own signature answers
\* that very record, whatever else the store holds.
C5_SameRecordAlways ==
    request.op = "authenticate" =>
        \A e \in store :
            e.embedding = request.embedding =>
                response.authenticated /\ IsIdentityOf(response, e)

\* C5, amended: authenticating with a stored record's own signature answers
\* authenticated=true at distance 0 with the identity of a record that has
\* this signature: that very record when no other record has the same one.
C5_SomeRecordWithThatSignature ==
    request.op = "authenticate" =>
        \A e \in store :
            e.embedding = request.embedding =>
                /\ response.authenticated
                /\ response.distance = 0
                /\ \E o \in store :
                        o.embedding = request.embedding /\ IsIdentityOf(response, o)
                /\ (\A o \in store : o.embedding = e.embedding => o = e) =>
                        IsIdentityOf(response, e)

\* C5's case: a record matched at distance 0 while another record is stored
C5_Witness ==
    /\ request.op = "authenticate"
    /\ response.authenticated
    /\ response.distance = 0
    /\ \E e, o \in store :
            /\ e.embedding = request.embedding
            /\ o.embedding # e.embedding
            /\ IsIdentityOf(response, e)

\* C6: an enrollment rejected for a missing or empty name, a part count outside
\* [2,4], an image without a face or fewer than 2 embeddings changes neither the
\* store nor the counter, in memory or in the file.
C6_RejectionChangesNothing ==
    [][(response'.op = "register" /\ response'.status = 400) =>
            /\ store' = store
            /\ metadata' = metadata
            /\ file' = file
            /\ lastPk' = lastPk
            /\ issued' = issued]_vars

\* C6's case: an upload rejected for an image without a face, with a record
\* already stored
C6_Witness ==
    /\ request.op = "register"
    /\ response.status = 400
    /\ response.error = "No face detected"
    /\ response.filename = "noface"
    /\ store # {}
    /\ metadata = 1
    /\ file = 1

C8_DeletedNeverMatched ==
    /\ \A e \in store : e.user_uuid \notin RemovedUuids
    /\ (request.op = "authenticate" /\ response.authenticated) =>
            response.uuid \notin RemovedUuids

\* C8's case: the query is a deleted record's signature and the answer is
\* another, still enrolled identity
C8_Witness ==
    /\ request.op = "authenticate"
    /\ response.authenticated
    /\ \E r \in removed :
            /\ r.embedding = request.embedding
            /\ response.uuid # r.user_uuid

Permuted(embs, f) == [i \in DOMAIN embs |-> embs[f[i]]]

Orders(k) == {f \in [1..k -> 1..k] : \A i, j \in 1..k : f[i] = f[j] => i = j}

\* C9: the signature stored by a successful enrollment is the element-wise
\* mean of the k embedded images, 2 <= k <= 4, whatever their order, also when
\* parts with an empty filename were skipped.
C9_SignatureIsMean ==
    (request.op = "register" /\ response.status = 201) =>
        LET embs == request.embeddings
            k == Len(embs)
        IN  /\ MinEmbeddings <= k
            /\ k <= MaxImages
            /\ k <= request.parts
            /\ \E e \in store :
                    /\ e.user_uuid = response.uuid
                    /\ \A i \in 1..EMBEDDING_DIMENSION :
                            k * e.embedding[i] = SumAt(embs, i)
                    /\ \A f \in Orders(k) : Mean(Permuted(embs, f)) = e.embedding

\* C9's case: four parts, one skipped, three different images averaged
C9_Witness ==
    /\ request.op = "register"
    /\ response.status = 201
    /\ request.parts = 4
    /\ Len(request.embeddings) = 3
    /\ request.embeddings[1] # request.embeddings[2]

\* the record add_user built in the last call, if it is in the store
LastBuilt == {e \in store : e.user_uuid = Uuid4(uuidsGenerated)}

\* C10 as stated: when the insert or the flush fails, the enrollment fails with
\* no record in the store and the counter advanced; the label is never issued
\* again and the records never outnumber the counter.
C10_FailureLeavesNoRecord ==
    /\ (request.op = "register" /\ response.status = 500) =>
            /\ LastBuilt = {}
            /\ file = LabelNumber(issued[Len(issued)])
    /\ \A i, j \in DOMAIN issued : i # j => issued[i] # issued[j]
    /\ file # NoFile => Cardinality(store) <= file

\* C10, amended: when the insert fails, the enrollment fails with no record in
\* the store; when the flush fails, it fails with the inserted record left in
\* the store. Either way the saved counter stays advanced by one, the label is
\* never rolled back or issued again, and the records never outnumber the
\* counter.
C10_FailureKeepsLabelConsumed ==
    /\ (request.op = "register" /\ response.status = 500) =>
            /\ response.error = "insert" => LastBuilt = {}
            /\ response.error = "flush" =>
                    \E e \in LastBuilt : e.human_id = issued[Len(issued)]
            /\ file = LabelNumber(issued[Len(issued)])
            /\ metadata = file
    /\ \A i, j \in DOMAIN issued : i # j => issued[i] # issued[j]
    /\ \A i \in DOMAIN issued : LabelNumber(issued[i]) <= file
    /\ Cardinality(store) <= (IF file = NoFile THEN InitialLastUserId ELSE file)

\* C10's case: the first enrollment failed at the insert, the second got fr2,
\* so the stored labels have a gap
C10_Witness ==
    /\ Len(issued) = 2
    /\ removed = {}
    /\ \E e \in store : e.human_id = HumanId(2)
    /\ \A e \in store : e.human_id # HumanId(1)

====
